---- MODULE Spec2Model ----
(***************************************************************************)
(* A model of the genie-drs archive reader (src/src/lib.rs).               *)
(*                                                                         *)
(* The archive is a byte stream owned by the DRS value.  DRS::new parses   *)
(* the 64-byte header, the table descriptors and the resource dictionaries *)
(* in that order from one shared cursor; afterwards the lookups work on    *)
(* the parsed index and read_resource seeks and reads content bytes.       *)
(***************************************************************************)
EXTENDS Integers, Sequences, FiniteSets, TLC

VARIABLES
  stream,   \* the bytes behind the handle R (never written by the reader)
  cursor,   \* the read position of the handle
  header,   \* DRS.header : Option<DRSHeader>
  tables,   \* DRS.tables : Vec<DRSTable>, each with its Vec<DRSResource>
  pc,       \* position inside DRS::new, then "Ready" or "Failed"
  ret,      \* the last call made by the owner of the archive and its result
  first     \* observer: one earlier fault-free read_resource call, or NoCall

vars == <<stream, cursor, header, tables, pc, ret, first>>

-----------------------------------------------------------------------------
(* Bounds of the explored archives.                                        *)

\* at most this many table descriptors are declared in the header
MaxTables == 2
\* at most this many resource entries are declared over all tables
MaxEntries == 3

-----------------------------------------------------------------------------
(* Sizes fixed by the format.                                              *)

BannerSize == 40
VersionSize == 4
PasswordSize == 12
U32Size == 4
TagSize == 4
Byte == 256

HeaderSize == BannerSize + VersionSize + PasswordSize + U32Size + U32Size
TableSize == TagSize + U32Size + U32Size
ResourceSize == U32Size + U32Size + U32Size

None == [some |-> FALSE]
Some(v) == [some |-> TRUE, val |-> v]

Max(a, b) == IF a >= b THEN a ELSE b

-----------------------------------------------------------------------------
(* std::io::Read / Seek on a byte stream, and byteorder's read_u32::<LE>.  *)
(* A read result is [ok, val, pos]: pos is the cursor after the call.      *)

IOErr(p) == [ok |-> FALSE, val |-> <<>>, pos |-> p]
IOOk(v, p) == [ok |-> TRUE, val |-> v, pos |-> p]

\* variant: a short read is taken for a full one, the missing bytes are zero
ReadExactLenient(s, pos, n) ==
  IOOk([i \in 1..n |-> IF pos + i <= Len(s) THEN s[pos + i] ELSE 0], pos + n)

\* read_exact fills the whole buffer or fails; on a short stream the bytes
\* that were there have been consumed and the cursor rests at the end.
ReadExact(s, pos, n) ==
  IF pos + n <= Len(s)
    THEN IOOk(SubSeq(s, pos + 1, pos + n), pos + n)
    ELSE IOErr(Max(pos, Len(s)))

\* variant: only the low byte of the integer is decoded
FromLELow(b) == b[1]

\* u32::from_le_bytes
FromLE(b) == b[1] + Byte * b[2] + Byte * Byte * b[3] + Byte * Byte * Byte * b[4]

DecodeU32(r) == IF r.ok THEN IOOk(FromLE(r.val), r.pos) ELSE r

ReadU32LE(s, pos) == DecodeU32(ReadExact(s, pos, U32Size))

\* the `?` operator: an error ends the function, a value goes on to K
Try(r, K(_)) == IF r.ok THEN K(r) ELSE r

\* variant: SeekFrom::Current in place of SeekFrom::Start
SeekCurrent(pos, offset) == pos + offset

\* variant: the seek is left out
SeekNone(pos, offset) == pos

\* seek(SeekFrom::Start(offset)) on a file or an in-memory cursor: any
\* offset is accepted, also one past the end of the stream.
SeekStart(pos, offset) == offset

-----------------------------------------------------------------------------
(* The three record parsers.                                               *)

DRSHeaderFrom(s, pos) ==
  Try(ReadExact(s, pos, BannerSize), LAMBDA banner :
  Try(ReadExact(s, banner.pos, VersionSize), LAMBDA version :
  Try(ReadExact(s, version.pos, PasswordSize), LAMBDA password :
  Try(ReadU32LE(s, password.pos), LAMBDA num :
  Try(ReadU32LE(s, num.pos), LAMBDA dir :
    IOOk([banner_msg |-> banner.val, version |-> version.val,
          password |-> password.val, num_resource_types |-> num.val,
          directory_size |-> dir.val], dir.pos))))))

DRSTableFrom(s, pos) ==
  Try(ReadExact(s, pos, TagSize), LAMBDA tag :
  Try(ReadU32LE(s, tag.pos), LAMBDA off :
  Try(ReadU32LE(s, off.pos), LAMBDA num :
    IOOk([resource_type |-> tag.val, offset |-> off.val,
          num_resources |-> num.val, resources |-> <<>>], num.pos))))

DRSResourceFrom(s, pos) ==
  Try(ReadU32LE(s, pos), LAMBDA id :
  Try(ReadU32LE(s, id.pos), LAMBDA off :
  Try(ReadU32LE(s, off.pos), LAMBDA size :
    IOOk([id |-> id.val, offset |-> off.val, size |-> size.val], size.pos))))

-----------------------------------------------------------------------------
(* The parse loops of DRS::read_tables and DRS::read_dictionary.           *)

RECURSIVE ReadTablesLoop(_, _, _, _)
\* n more iterations of `for _ in 0..header.num_resource_types`
ReadTablesLoop(s, pos, n, acc) ==
  IF n = 0 THEN IOOk(acc, pos) ELSE
  Try(DRSTableFrom(s, pos), LAMBDA t :
    ReadTablesLoop(s, t.pos, n - 1, Append(acc, t.val)))

\* variant: the loop runs over 1..num_resource_types
ReadTablesOneLess(s, pos, hdr) ==
  ReadTablesLoop(s, pos, Max(hdr.num_resource_types, 1) - 1, <<>>)

ReadTables(s, pos, hdr) == ReadTablesLoop(s, pos, hdr.num_resource_types, <<>>)

RECURSIVE ReadResourcesLoop(_, _, _, _)
\* n more iterations of `for i in 0..self.num_resources`
ReadResourcesLoop(s, pos, n, acc) ==
  IF n = 0 THEN IOOk(acc, pos) ELSE
  Try(DRSResourceFrom(s, pos), LAMBDA r :
    ReadResourcesLoop(s, r.pos, n - 1, Append(acc, r.val)))

\* variant: the loop runs over 1..num_resources
ReadResourcesOneLess(table, s, pos) ==
  Try(ReadResourcesLoop(s, pos, Max(table.num_resources, 1) - 1, table.resources),
      LAMBDA r : IOOk([table EXCEPT !.resources = r.val], r.pos))

\* DRSTable::read_resources: the entries are pushed onto table.resources
ReadResources(table, s, pos) ==
  Try(ReadResourcesLoop(s, pos, table.num_resources, table.resources), LAMBDA r :
    IOOk([table EXCEPT !.resources = r.val], r.pos))

\* variant: the reader seeks to the table's declared offset
DictionaryStartDeclared(table, pos) == table.offset

\* where the entries of a table are read from: the current position, the
\* table's declared offset is not looked at
DictionaryStart(table, pos) == pos

RECURSIVE ReadDictionaryLoop(_, _, _, _)
\* `for table in &mut self.tables`, from the k-th table on
ReadDictionaryLoop(s, pos, tbls, k) ==
  IF k > Len(tbls) THEN IOOk(tbls, pos) ELSE
  Try(ReadResources(tbls[k], s, DictionaryStart(tbls[k], pos)), LAMBDA r :
    ReadDictionaryLoop(s, r.pos, [tbls EXCEPT ![k] = r.val], k + 1))

ReadDictionary(s, pos, tbls) == ReadDictionaryLoop(s, pos, tbls, 1)

-----------------------------------------------------------------------------
(* Lookups over the parsed index.  A result is [kind, val].                *)

Ok(v) == [kind |-> "Ok", val |-> v]
Err(k) == [kind |-> k, val |-> <<>>]

Min(S) == CHOOSE i \in S : \A j \in S : i <= j
MaxOf(S) == CHOOSE i \in S : \A j \in S : i >= j

\* Iterator::find on a slice: the index of the first element, 0 for none
FindTable(tbls, resource_type) ==
  LET I == {i \in 1..Len(tbls) : tbls[i].resource_type = resource_type}
  IN  IF I = {} THEN 0 ELSE Min(I)

FindResource(resources, id) ==
  LET I == {i \in 1..Len(resources) : resources[i].id = id}
  IN  IF I = {} THEN 0 ELSE Min(I)

\* DRSTable::get_resource
TableGetResource(table, id) ==
  LET i == FindResource(table.resources, id)
  IN  IF i = 0 THEN Err("NotFound") ELSE Ok(table.resources[i])

\* DRS::get_table
GetTable(tbls, resource_type) ==
  LET i == FindTable(tbls, resource_type)
  IN  IF i = 0 THEN Err("NotFound") ELSE Ok(tbls[i])

\* DRS::get_resource
GetResource(tbls, resource_type, id) ==
  LET t == GetTable(tbls, resource_type)
  IN  IF t.kind # "Ok" THEN t ELSE TableGetResource(t.val, id)

\* variant: the last table that holds the id wins
GetResourceTypeLast(tbls, id) ==
  LET I == {i \in 1..Len(tbls) : TableGetResource(tbls[i], id).kind = "Ok"}
  IN  IF I = {} THEN None ELSE Some(tbls[MaxOf(I)].resource_type)

\* DRS::get_resource_type
GetResourceType(tbls, id) ==
  LET I == {i \in 1..Len(tbls) : TableGetResource(tbls[i], id).kind = "Ok"}
  IN  IF I = {} THEN None ELSE Some(tbls[Min(I)].resource_type)

\* seek, then read_exact into a buffer of `size` bytes
SeekAndRead(s, cur, e, fault) ==
  IF fault = "seek" THEN [res |-> Err("IOFault"), cursor |-> cur] ELSE
  IF fault = "read"
    THEN [res |-> Err("IOFault"), cursor |-> SeekStart(cur, e.offset)] ELSE
  LET r == ReadExact(s, SeekStart(cur, e.offset), e.size) IN
  [res |-> (IF r.ok THEN Ok(r.val) ELSE Err("IOFault")), cursor |-> r.pos]

\* variant: the stream is probed before the entry is looked up
ReadResourceProbeFirst(s, cur, tbls, resource_type, id, fault) ==
  LET e == GetResource(tbls, resource_type, id) IN
  IF fault # "none" THEN [res |-> Err("IOFault"), cursor |-> cur] ELSE
  IF e.kind # "Ok" THEN [res |-> e, cursor |-> cur] ELSE
  SeekAndRead(s, cur, e.val, fault)

\* variant: the stream is rewound before the entry is looked up
ReadResourceRewindFirst(s, cur, tbls, resource_type, id, fault) ==
  LET e == GetResource(tbls, resource_type, id) IN
  IF e.kind # "Ok" THEN [res |-> e, cursor |-> 0] ELSE
  SeekAndRead(s, 0, e.val, fault)

\* DRS::read_resource.  fault is what the stream does: "none", "seek" (the
\* seek is refused) or "read" (the read after a good seek is refused, before
\* any byte is consumed).  The result carries the cursor after the call.
ReadResource(s, cur, tbls, resource_type, id, fault) ==
  LET e == GetResource(tbls, resource_type, id) IN
  IF e.kind # "Ok" THEN [res |-> e, cursor |-> cur] ELSE
  SeekAndRead(s, cur, e.val, fault)

\* DRS::new as one function of the stream: the parsed tables or the error
Open(s) ==
  Try(DRSHeaderFrom(s, 0), LAMBDA h :
  Try(ReadTables(s, h.pos, h.val), LAMBDA t :
    ReadDictionary(s, t.pos, t.val)))

-----------------------------------------------------------------------------
(* The archives the reader is opened on.  An archive is laid out as the    *)
(* format says (header, table descriptors, dictionaries, content), with    *)
(* either the right or a meaningless declared table offset, and is cut at  *)
(* the boundaries of its regions.                                          *)

TagBin == <<66, 73, 78, 0>>
TagWav == <<87, 65, 86, 0>>
Tags == {TagBin, TagWav}

\* two ids that agree in their low byte
Ids == {100, 100 + Byte}

\* "hello" "hi!"
Content == <<104, 101, 108, 108, 111, 104, 105, 33>>

EncodeU32(n) ==
  <<n % Byte, (n \div Byte) % Byte, (n \div (Byte * Byte)) % Byte,
    (n \div (Byte * Byte * Byte)) % Byte>>

\* counts[1] + ... + counts[k]
Sum(counts, k) ==
  Cardinality({e \in (1..k) \X (1..MaxEntries) : e[2] <= counts[e[1]]})

TablesEndOf(n) == HeaderSize + TableSize * n
DirEndOf(counts) == TablesEndOf(Len(counts)) + ResourceSize * Sum(counts, Len(counts))

\* the id of the g-th entry of the archive (0-based, over all tables)
IdOf(pattern, g) ==
  IF pattern = "same" THEN 100
  ELSE IF g % 2 = 0 THEN 100 ELSE 100 + Byte

\* <<offset, size>> of the content of the g-th entry; c is where the content
\* region starts.  Entry 0 ends with the stream, entry 1 is the version field
\* of the header, entry 2 runs one byte past the end of the stream, the
\* entries from 4 on are empty and lie past the end.
Layout(g, c) ==
  CASE g = 0 -> <<c + 5, 3>>
    [] g = 1 -> <<BannerSize, VersionSize>>
    [] g = 2 -> <<c + 6, 3>>
    [] g = 3 -> <<c, 5>>
    [] OTHER -> <<c + Len(Content) + g, 0>>

Archives ==
  {a \in [tags : UNION {[1..n -> Tags] : n \in 0..MaxTables},
          counts : UNION {[1..n -> 0..MaxEntries] : n \in 0..MaxTables},
          ids : {"same", "alternate"}] :
     /\ Len(a.tags) = Len(a.counts)
     /\ Len(a.tags) > 0 => a.tags[1] = TagBin
     /\ Sum(a.counts, Len(a.counts)) <= MaxEntries}

\* the byte at position p (0-based) of a field holding the u32 value n
FieldByte(n, p) == EncodeU32(n)[(p % U32Size) + 1]

Encode(a) ==
  LET n == Len(a.tags)
      total == Sum(a.counts, n)
      c == DirEndOf(a.counts)
      hdr == [i \in 1..BannerSize |-> 64 + i] \o <<49, 46, 48, 48>>
             \o [i \in 1..PasswordSize |-> 0] \o EncodeU32(n) \o EncodeU32(c)
      \* the tables at odd places declare a meaningless offset
      declared(k) == IF k % 2 = 0
                       THEN TablesEndOf(n) + ResourceSize * Sum(a.counts, k - 1)
                       ELSE 0
      desc == [p \in 0..(TableSize * n - 1) |->
                 LET k == (p \div TableSize) + 1
                     q == p % TableSize
                 IN  IF q < TagSize THEN a.tags[k][q + 1]
                     ELSE IF q < TagSize + U32Size THEN FieldByte(declared(k), q)
                     ELSE FieldByte(a.counts[k], q)]
      dict == [p \in 0..(ResourceSize * total - 1) |->
                 LET g == p \div ResourceSize
                     q == p % ResourceSize
                 IN  IF q < U32Size THEN FieldByte(IdOf(a.ids, g), q)
                     ELSE IF q < 2 * U32Size THEN FieldByte(Layout(g, c)[1], q)
                     ELSE FieldByte(Layout(g, c)[2], q)]
  IN  hdr \o [i \in 1..(TableSize * n) |-> desc[i - 1]]
          \o [i \in 1..(ResourceSize * total) |-> dict[i - 1]] \o Content

Cuts(a) ==
  {0, HeaderSize - 1, HeaderSize, TablesEndOf(Len(a.tags)) - 1,
   DirEndOf(a.counts) - 1, Len(Encode(a))}

Streams == UNION {{SubSeq(Encode(a), 1, c) : c \in Cuts(a) \cap Nat} : a \in Archives}

-----------------------------------------------------------------------------
(* The state machine.                                                      *)

NoCall == [op |-> "none", tag |-> <<>>, id |-> 0, fault |-> "none",
           kind |-> "none", val |-> <<>>]
NoFirst == [call |-> NoCall, seen |-> 0]
Call(op, tag, id, fault, res) ==
  [op |-> op, tag |-> tag, id |-> id, fault |-> fault,
   kind |-> res.kind, val |-> res.val]

Faults == {"none", "seek", "read"}

Init ==
  /\ stream \in Streams
  /\ cursor = 0
  /\ header = None
  /\ tables = <<>>
  /\ pc = "new"
  /\ ret = NoCall
  /\ first = NoFirst

\* DRS::new fails: the error goes to the caller and the DRS value, with the
\* handle and whatever was parsed, is dropped
Fail ==
  /\ pc' = "Failed"
  /\ header' = None
  /\ tables' = <<>>
  /\ ret' = Call("new", <<>>, 0, "read", Err("IOFault"))
  /\ UNCHANGED <<stream, first>>

\* DRS::new, up to the call of read_header
New ==
  /\ pc = "new"
  /\ pc' = "read_header"
  /\ header' = None
  /\ tables' = <<>>
  /\ UNCHANGED <<stream, cursor, ret, first>>

\* drs.read_header()?
ReadHeaderStep ==
  /\ pc = "read_header"
  /\ \E fault \in BOOLEAN :
       LET r == DRSHeaderFrom(stream, cursor) IN
       IF fault \/ ~r.ok
         THEN Fail /\ cursor' = (IF fault THEN cursor ELSE r.pos)
         ELSE /\ header' = Some(r.val)
              /\ cursor' = r.pos
              /\ pc' = "read_tables"
              /\ UNCHANGED <<stream, tables, ret, first>>

\* drs.read_tables()?
ReadTablesStep ==
  /\ pc = "read_tables"
  /\ \E fault \in BOOLEAN :
       LET r == ReadTables(stream, cursor, header.val) IN
       IF fault \/ ~r.ok
         THEN Fail /\ cursor' = (IF fault THEN cursor ELSE r.pos)
         ELSE /\ tables' = r.val
              /\ cursor' = r.pos
              /\ pc' = "read_dictionary"
              /\ UNCHANGED <<stream, header, ret, first>>

\* drs.read_dictionary()?; Ok(drs)
ReadDictionaryStep ==
  /\ pc = "read_dictionary"
  /\ \E fault \in BOOLEAN :
       LET r == ReadDictionary(stream, cursor, tables) IN
       IF fault \/ ~r.ok
         THEN Fail /\ cursor' = (IF fault THEN cursor ELSE r.pos)
         ELSE /\ tables' = r.val
              /\ cursor' = r.pos
              /\ pc' = "Ready"
              /\ ret' = Call("new", <<>>, 0, "none", Ok(<<>>))
              /\ UNCHANGED <<stream, header, first>>

\* drs.tables()
TablesCall ==
  /\ pc = "Ready"
  /\ ret' = Call("tables", <<>>, 0, "none", Ok(tables))
  /\ UNCHANGED <<stream, cursor, header, tables, pc, first>>

\* drs.get_table(resource_type)
GetTableCall ==
  /\ pc = "Ready"
  /\ \E t \in Tags :
       ret' = Call("get_table", t, 0, "none", GetTable(tables, t))
  /\ UNCHANGED <<stream, cursor, header, tables, pc, first>>

\* drs.get_resource(resource_type, id)
GetResourceCall ==
  /\ pc = "Ready"
  /\ \E t \in Tags, id \in Ids :
       ret' = Call("get_resource", t, id, "none", GetResource(tables, t, id))
  /\ UNCHANGED <<stream, cursor, header, tables, pc, first>>

\* drs.get_resource_type(id)
GetResourceTypeCall ==
  /\ pc = "Ready"
  /\ \E id \in Ids :
       LET r == GetResourceType(tables, id)
       IN  ret' = Call("get_resource_type", <<>>, id, "none",
                       IF r.some THEN [kind |-> "Some", val |-> r.val]
                                 ELSE [kind |-> "None", val |-> <<>>])
  /\ UNCHANGED <<stream, cursor, header, tables, pc, first>>

\* The observer keeps one fault-free read_resource call and counts up: seen
\* is 1 once another read_resource call has come after it, and 2 once the
\* kept call has been made again after that.
Observe(call) ==
  LET same == call.tag = first.call.tag /\ call.id = first.call.id
             /\ call.fault = "none"
  IN  IF first = NoFirst
        THEN IF call.fault = "none" THEN {first, [call |-> call, seen |-> 0]}
                                    ELSE {first}
      ELSE IF first.seen = 0 /\ ~same THEN {[first EXCEPT !.seen = 1]}
      ELSE IF first.seen = 1 /\ same THEN {[first EXCEPT !.seen = 2]}
      ELSE {first}

\* drs.read_resource(resource_type, id)
ReadResourceCall ==
  /\ pc = "Ready"
  /\ \E t \in Tags, id \in Ids, fault \in Faults :
       LET r == ReadResource(stream, cursor, tables, t, id, fault) IN
       /\ ret' = Call("read_resource", t, id, fault, r.res)
       /\ cursor' = r.cursor
  /\ UNCHANGED <<stream, header, tables, pc, first>>

\* drs.read_resource(resource_type, id), watched by the observer
ReadResourceObserved ==
  /\ pc = "Ready"
  /\ \E t \in Tags, id \in Ids, fault \in Faults :
       LET r == ReadResource(stream, cursor, tables, t, id, fault) IN
       /\ ret' = Call("read_resource", t, id, fault, r.res)
       /\ cursor' = r.cursor
       /\ first' \in Observe(Call("read_resource", t, id, fault, r.res))
  /\ UNCHANGED <<stream, header, tables, pc>>

Next ==
  \/ New
  \/ ReadHeaderStep
  \/ ReadTablesStep
  \/ ReadDictionaryStep
  \/ TablesCall
  \/ GetTableCall
  \/ GetResourceCall
  \/ GetResourceTypeCall
  \/ ReadResourceCall

NextObserved ==
  \/ New
  \/ ReadHeaderStep
  \/ ReadTablesStep
  \/ ReadDictionaryStep
  \/ TablesCall
  \/ GetTableCall
  \/ GetResourceCall
  \/ GetResourceTypeCall
  \/ ReadResourceObserved

Spec == Init /\ [][Next]_vars

\* the same program with the observer of read_resource switched on
SpecObserved == Init /\ [][NextObserved]_vars

-----------------------------------------------------------------------------
(* What the properties are stated with: the stream read byte by byte at    *)
(* absolute positions, without the reader.                                 *)

\* the little-endian u32 at the absolute position p of s, -1 when s ends
\* before p + 4
U32At(s, p) ==
  IF p + 4 <= Len(s)
    THEN s[p + 1] + 256 * s[p + 2] + 65536 * s[p + 3] + 16777216 * s[p + 4]
    ELSE -1

\* the n bytes at the absolute position p of s, <<>> when s ends before p + n
BytesAt(s, p, n) == IF p + n <= Len(s) THEN SubSeq(s, p + 1, p + n) ELSE <<>>

RECURSIVE ResourcesBefore(_, _)
\* the num_resources of the tables 1..k-1 added up
ResourcesBefore(tbls, k) ==
  IF k <= 1 THEN 0
  ELSE tbls[k - 1].num_resources + ResourcesBefore(tbls, k - 1)

\* where the j-th entry (from 1) of the k-th table (from 1) lies
EntryAt(tbls, k, j) ==
  64 + 12 * Len(tbls) + 12 * ResourcesBefore(tbls, k) + 12 * (j - 1)

RECURSIVE DeclaredResources(_, _)
\* the num_resources fields of the first n descriptors of s added up
DeclaredResources(s, n) ==
  IF n = 0 THEN 0
  ELSE U32At(s, 64 + 12 * (n - 1) + 8) + DeclaredResources(s, n - 1)

\* the length of header and table descriptors that s declares (s holds a header)
DeclaredTablesEnd(s) == 64 + 12 * U32At(s, 56)

\* the length of header and directory that s declares (s holds the descriptors)
DeclaredDirEnd(s) ==
  DeclaredTablesEnd(s) + 12 * DeclaredResources(s, U32At(s, 56))

HasId(table, id) == \E j \in 1..Len(table.resources) : table.resources[j].id = id

UniqueIds(table) ==
  \A i, j \in 1..Len(table.resources) :
    i # j => table.resources[i].id # table.resources[j].id

\* s with the offset field of every table descriptor set to v
WithTableOffsets(s, v) ==
  [p \in 1..Len(s) |->
     IF /\ p > 64
        /\ p <= DeclaredTablesEnd(s)
        /\ (p - 65) % 12 \in 4..7
       THEN EncodeU32(v)[((p - 65) % 12) - 3]
       ELSE s[p]]

IsRead == pc = "Ready" /\ ret.op = "read_resource"

-----------------------------------------------------------------------------
(* The properties.                                                         *)

\* C1: when resource(type_tag, id) resolves to an entry whose byte range lies
\* inside the stream, a read_resource(type_tag, id) that meets no stream fault
\* returns exactly size bytes, the i-th being the stream byte at offset + i,
\* wherever the cursor was before the call.
C1_ReadResourceBytes ==
  (IsRead /\ ret.fault = "none") =>
    LET e == GetResource(tables, ret.tag, ret.id) IN
    (e.kind = "Ok" /\ e.val.offset + e.val.size <= Len(stream)) =>
      /\ ret.kind = "Ok"
      /\ Len(ret.val) = e.val.size
      /\ \A i \in 1..e.val.size : ret.val[i] = stream[e.val.offset + i]

\* a read that had to seek backwards, from the content into the header
C1_Witness ==
  /\ IsRead /\ ret.kind = "Ok"
  /\ ret.val = <<49, 46, 48, 48>>
  /\ cursor = 44

\* C2: a fault-free read_resource returns what an earlier fault-free
\* read_resource of the same (type_tag, id) returned, whatever calls were
\* made between the two.
C2_ReadResourceIdempotent ==
  (/\ IsRead /\ ret.fault = "none"
   /\ first # NoFirst
   /\ ret.tag = first.call.tag /\ ret.id = first.call.id) =>
    (ret.kind = first.call.kind /\ ret.val = first.call.val)

\* the kept call was made again after another read_resource had moved the cursor
C2_Witness ==
  /\ IsRead /\ ret.fault = "none" /\ ret.kind = "Ok" /\ Len(ret.val) > 0
  /\ first.seen = 2
  /\ ret.tag = first.call.tag /\ ret.id = first.call.id

\* C3: read_resource returns NotFound, never IOFault, when no table has the
\* tag or the first table with the tag has no entry with the id, also when
\* the stream refuses every seek and read.
C3_NotFoundBeforeStream ==
  IsRead =>
    LET M == {k \in 1..Len(tables) : tables[k].resource_type = ret.tag} IN
    (M = {} \/ \A k \in M : (\A i \in M : k <= i) => ~HasId(tables[k], ret.id))
      => ret.kind = "NotFound"

\* the id is missing from a table that exists, and the stream is faulty
C3_Witness ==
  /\ IsRead /\ ret.fault = "seek" /\ ret.kind = "NotFound"
  /\ \E k \in 1..Len(tables) :
       tables[k].resource_type = ret.tag /\ Len(tables[k].resources) > 0

\* C4: a stream that ends inside the header, the table descriptors or the
\* resource dictionaries never yields a Ready archive, and parsing never gets
\* past the region the stream ends in; a failed open returns an IOFault and
\* leaves no header and no table behind.
C4_OpenAtomic ==
  /\ pc = "Failed" =>
       (ret.op = "new" /\ ret.kind = "IOFault" /\ header = None /\ tables = <<>>)
  /\ Len(stream) < 64 => pc \in {"new", "read_header", "Failed"}
  /\ (Len(stream) >= 64 /\ Len(stream) < DeclaredTablesEnd(stream))
       => pc \in {"new", "read_header", "read_tables", "Failed"}
  /\ (Len(stream) >= 64 /\ Len(stream) >= DeclaredTablesEnd(stream)
        /\ Len(stream) < DeclaredDirEnd(stream))
       => pc # "Ready"

\* the stream ended inside the dictionaries, after tables had been parsed
C4_Witness ==
  /\ pc = "Failed"
  /\ Len(stream) >= 64 /\ Len(stream) > DeclaredTablesEnd(stream)
  /\ Len(stream) < DeclaredDirEnd(stream)
  /\ cursor = Len(stream)

\* C5: resource_type_of(id) returns the tag of the first table that holds an
\* entry with the id, and absent exactly when no table holds one.
C5_FirstTableWins ==
  (pc = "Ready" /\ ret.op = "get_resource_type") =>
    /\ ret.kind = "None" <=> \A k \in 1..Len(tables) : ~HasId(tables[k], ret.id)
    /\ ret.kind = "Some" =>
         \E k \in 1..Len(tables) :
           /\ HasId(tables[k], ret.id)
           /\ \A i \in 1..(k - 1) : ~HasId(tables[i], ret.id)
           /\ ret.val = tables[k].resource_type

\* the id is held by two tables with different tags
C5_Witness ==
  /\ pc = "Ready" /\ ret.op = "get_resource_type" /\ ret.kind = "Some"
  /\ \E i, k \in 1..Len(tables) :
       /\ i < k /\ tables[i].resource_type # tables[k].resource_type
       /\ HasId(tables[i], ret.id) /\ HasId(tables[k], ret.id)

\* C6: a Ready archive holds as many tables as the header declares, the k-th
\* being the k-th descriptor of the stream; with no tables declared the list
\* is empty and every lookup returns NotFound (absent).
C6_TableCount ==
  pc = "Ready" =>
    /\ header.some
    /\ header.val.num_resource_types = U32At(stream, 56)
    /\ Len(tables) = header.val.num_resource_types
    /\ \A k \in 1..Len(tables) :
         /\ tables[k].resource_type = BytesAt(stream, 64 + 12 * (k - 1), 4)
         /\ tables[k].offset = U32At(stream, 64 + 12 * (k - 1) + 4)
         /\ tables[k].num_resources = U32At(stream, 64 + 12 * (k - 1) + 8)
    /\ header.val.num_resource_types = 0 =>
         /\ tables = <<>>
         /\ ret.op \in {"get_table", "get_resource", "read_resource"}
              => ret.kind = "NotFound"
         /\ ret.op = "get_resource_type" => ret.kind = "None"
         /\ ret.op = "tables" => ret.val = <<>>

\* two tables with different tags have been parsed and looked up
C6_Witness ==
  /\ pc = "Ready" /\ Len(tables) = 2
  /\ tables[1].resource_type # tables[2].resource_type
  /\ ret.op = "get_table" /\ ret.kind = "Ok" /\ ret.val = tables[2]

\* C7: in a Ready archive every table holds as many entries as its descriptor
\* declares, before and after any lookups and extractions.
C7_ResourceCount ==
  pc = "Ready" =>
    \A k \in 1..Len(tables) :
      /\ Len(tables[k].resources) = tables[k].num_resources
      /\ tables[k].num_resources = U32At(stream, 64 + 12 * (k - 1) + 8)

\* a table of two entries, after an extraction
C7_Witness ==
  /\ IsRead /\ ret.kind = "Ok"
  /\ \E k \in 1..Len(tables) : tables[k].num_resources = 2

\* C8 as stated: in a Ready archive no table holds two entries with one id.
C8_IdsUnique ==
  pc = "Ready" => \A k \in 1..Len(tables) : UniqueIds(tables[k])

\* C8, amended: the reader keeps the ids as the dictionary lists them and
\* checks nothing: the ids of a table are pairwise distinct exactly when the
\* ids of its dictionary entries in the stream are.
C8_IdsAsInStream ==
  pc = "Ready" =>
    \A k \in 1..Len(tables) :
      UniqueIds(tables[k]) <=>
        \A i, j \in 1..tables[k].num_resources :
          i # j => U32At(stream, EntryAt(tables, k, i))
                     # U32At(stream, EntryAt(tables, k, j))

\* a table of two entries with different ids
C8_Witness ==
  /\ pc = "Ready"
  /\ \E k \in 1..Len(tables) :
       Len(tables[k].resources) >= 2 /\ UniqueIds(tables[k])

\* C9: the j-th entry of the k-th table is decoded from the 12 bytes at
\* 64 + 12*N + 12*(num_resources of the tables before) + 12*j, whatever the
\* table declares as its offset; the stream with other table offsets parses
\* to the same entries.
C9_DictionarySequential ==
  pc = "Ready" =>
    /\ \A k \in 1..Len(tables) : \A j \in 1..Len(tables[k].resources) :
         tables[k].resources[j] =
           [id |-> U32At(stream, EntryAt(tables, k, j)),
            offset |-> U32At(stream, EntryAt(tables, k, j) + 4),
            size |-> U32At(stream, EntryAt(tables, k, j) + 8)]
    /\ \A v \in {0, 64, Len(stream) + 1} :
         LET other == Open(WithTableOffsets(stream, v)) IN
         /\ other.ok
         /\ Len(other.val) = Len(tables)
         /\ \A k \in 1..Len(tables) :
              other.val[k].resources = tables[k].resources

\* two tables with entries, the first declaring an offset that is not where
\* its dictionary lies
C9_Witness ==
  /\ pc = "Ready" /\ Len(tables) = 2
  /\ Len(tables[1].resources) > 0 /\ Len(tables[2].resources) > 0
  /\ tables[1].offset # EntryAt(tables, 1, 1)
  /\ tables[2].offset = EntryAt(tables, 2, 1)

\* C10: once Ready, no call changes the stream, the header, the tables or the
\* state; the lookups leave the cursor alone, and so does a read_resource
\* that returns NotFound.
C10_Frame ==
  [][pc = "Ready" =>
       /\ stream' = stream /\ header' = header /\ tables' = tables
       /\ pc' = "Ready"
       /\ ret'.op # "read_resource" => cursor' = cursor
       /\ (ret'.op = "read_resource" /\ ret'.kind = "NotFound") => cursor' = cursor]_vars

\* a read_resource returned NotFound after an extraction had moved the cursor
C10_Witness ==
  /\ IsRead /\ ret.kind = "NotFound" /\ ret.fault = "none"
  /\ cursor = 44

====
